---- MODULE Spec2Model ----
(***************************************************************************)
(* A model of log-reroute (src/src/lib.rs): the Reroute logging proxy, an  *)
(* ArcSwap<Box<dyn Log>> slot that threads load from and swap, the Dummy   *)
(* logger, and the reference counts of the Arc's holding the slave loggers.*)
(*                                                                         *)
(* A logger (an Arc<Box<dyn Log>>) is identified by a number 1, 2, ...; 1  *)
(* is the Dummy that Default::default() installs.  Every thread runs calls *)
(* on the proxy; a call is split at its atomic steps (the load or the swap *)
(* of the slot, the call into the slave logger, the return).               *)
(***************************************************************************)
EXTENDS Integers, Sequences, FiniteSets, TLC

\* ---------------------------------------------------------------- bounds
\* Threads that call into the proxy concurrently.
NThreads == 2
\* Loggers ever allocated (the initial Dummy included).
MaxSinks == 4
\* Calls started on the proxy or on a handle, in total.
MaxOps == 3
\* Calls in total in a run whose calls were made one after the other: such a
\* run may go on for one call more.
MaxSeqOps == 4

Threads == 1..NThreads
Levels == {"Info", "Trace"}
\* A level as the number log::Level gives it (Error = 1 .. Trace = 5): what a
\* call keeps of the level it was given.
LevelNo(level) == IF level = "Info" THEN 3 ELSE 5
\* No logger: a thread that holds no Arc.
None == 0

VARIABLES
    inner,    \* Reroute.inner: the logger in the slot
    kind,     \* kind[s]: "Dummy", "User" or "Broken", for every logger allocated so far
    rc,       \* rc[s]: strong count of the Arc of logger s (0: destroyed)
    out,      \* out[s]: what logger s has written: [recs, flushes]
    handle,   \* handle[t]: the Arc that get() returned to thread t, or None
    pc,       \* pc[t]: where thread t is in its call
    op,       \* op[t]: the call thread t is in
    arg,      \* arg[t]: the call's argument (a logger, a level's number or a record's name)
    tgt,      \* tgt[t]: the logger the call loaded (or swapped out)
    res,      \* res[t]: what the slave logger's enabled() answered
    hits,     \* history: hits[s] counts the calls made into logger s, by caller
    swaps,    \* history: the loggers put in the slot, in the order of the swaps
    settled,  \* history: the logger of the latest swap once its redirect returned
    call,     \* history: call[t] records the course of thread t's current call
    handleIdx,\* history: Len(swaps) when the get() that gave handle[t] read the slot
    nops,     \* calls started so far
    solo,     \* history: no call has started while another was in progress
    logger,   \* the logger registered with the log facade (log::set_logger)
    inits     \* history: the init() calls so far: [ok, at (Len(swaps) then)]

slot == <<inner, swaps, settled>>
heap == <<kind, rc, out, hits>>
locals == <<pc, op, arg, tgt, res, call>>
handles == <<handle, handleIdx>>
facade == <<logger, inits>>
vars == <<slot, heap, locals, handles, nops, solo, facade>>

Sinks == DOMAIN kind

\* ------------------------------------------------- the slave loggers
\* impl Log for Dummy.
DummyEnabledAll(level) == TRUE
DummyEnabled(level) == FALSE

DummyLog(o, record) == o

DummyFlush(o) == o

\* A logger the user supplies (the example's fern dispatch): it takes Info and
\* more severe records, writes each record it is given and counts its flushes.
UserEnabled(level) == level = "Info"

UserLog(o, record) == [o EXCEPT !.recs = Append(@, record)]

UserFlush(o) == [o EXCEPT !.flushes = @ + 1]

\* A broken logger the user supplies: each of its methods panics, so enabled
\* gives no answer and nothing is written.
BrokenEnabled(level) == FALSE

BrokenLog(o, record) == o

BrokenFlush(o) == o

\* The call into logger s ends by a panic instead of a return.
Panics(s) == kind[s] = "Broken"

\* Dynamic dispatch through Box<dyn Log>.
SinkEnabled(s, level) ==
    CASE kind[s] = "Dummy" -> DummyEnabled(level)
      [] kind[s] = "User" -> UserEnabled(level)
      [] kind[s] = "Broken" -> BrokenEnabled(level)

SinkLog(s, record) ==
    CASE kind[s] = "Dummy" -> DummyLog(out[s], record)
      [] kind[s] = "User" -> UserLog(out[s], record)
      [] kind[s] = "Broken" -> BrokenLog(out[s], record)

SinkFlush(s) ==
    CASE kind[s] = "Dummy" -> DummyFlush(out[s])
      [] kind[s] = "User" -> UserFlush(out[s])
      [] kind[s] = "Broken" -> BrokenFlush(out[s])

NoOutput == [recs |-> <<>>, flushes |-> 0]

\* No call made yet into a logger: by forwarding calls, by redirects (flush),
\* through handles (late: of these, the calls made once it was retired);
\* retired counts the redirects that replaced it and are over.
NoHits == [forward |-> 0, redirect |-> 0, handle |-> 0, late |-> 0, retired |-> 0]

\* How often logger s has been swapped out of the slot.
Replaced(s) == Cardinality({i \in 1..(Len(swaps) - 1) : swaps[i] = s})

\* Logger s is out of the slot and every redirect that replaced it has flushed
\* it and is over.
Retired(s) ==
    /\ s # inner
    /\ Replaced(s) > 0
    /\ hits[s].retired = Replaced(s)

\* ------------------------------------------------- Arc reference counting
\* Arc::clone (load_full, and the protection a load() Guard gives).
AcquireBorrowed(s) == rc
Acquire(s) == [rc EXCEPT ![s] = @ + 1]

\* Drop of an Arc; the logger is destroyed when the count reaches 0.
Release(s) == [rc EXCEPT ![s] = @ - 1]

\* ------------------------------------------------- construction
\* Default::default(): the slot holds a fresh Dummy.
DefaultInnerEmpty == None
DefaultInner == 1

\* The logger of the log facade before any set_logger.
NoLogger == "NopLogger"

\* The history of a call that has not started.
NoCall ==
    [invoked |-> <<>>,   \* the loggers the call has called into, in order
     loadIdx |-> 0,      \* Len(swaps) when the call read the slot
     nloads |-> 0,       \* how many times the call read the slot
     atLoad |-> None,    \* the value of settled when the call read the slot
     swapIdx |-> 0,      \* the position in swaps of the call's own swap
     stale |-> FALSE]    \* the call called into a logger replaced and flushed before

Init ==
    /\ inner = DefaultInner
    /\ kind = <<"Dummy">>
    /\ rc = <<1>>
    /\ out = <<NoOutput>>
    /\ handle = [t \in Threads |-> None]
    /\ pc = [t \in Threads |-> "idle"]
    /\ op = [t \in Threads |-> "none"]
    /\ arg = [t \in Threads |-> None]
    /\ tgt = [t \in Threads |-> None]
    /\ res = [t \in Threads |-> FALSE]
    /\ hits = <<NoHits>>
    /\ swaps = <<DefaultInner>>
    /\ settled = None
    /\ call = [t \in Threads |-> NoCall]
    /\ handleIdx = [t \in Threads |-> 0]
    /\ nops = 0
    /\ solo = TRUE
    /\ logger = NoLogger
    /\ inits = <<>>

\* ------------------------------------------------- helpers of the actions
\* Idle threads holding the same handle are interchangeable: the lowest-numbered
\* of them makes the next call (a symmetry reduction, not a scheduling rule).
CanStart(t) ==
    /\ pc[t] = "idle"
    /\ \/ nops < MaxOps
       \/ nops < MaxSeqOps /\ solo /\ \A u \in Threads \ {t} : pc[u] = "idle"
    /\ \A u \in Threads : (u < t /\ pc[u] = "idle") => handle[u] # handle[t]

\* Arc::new(Box::new(log)): a new logger with one owner.
Alloc(k) ==
    /\ Len(kind) < MaxSinks
    /\ kind' = Append(kind, k)
    /\ rc' = Append(rc, 1)
    /\ out' = Append(out, NoOutput)
    /\ hits' = Append(hits, NoHits)

InRedirect(t) == pc[t] \in {"rr_swap", "rr_flush", "rr_in"}
InForward(t) == pc[t] \in {"fw_call", "fw_in"}
InGet(t) == pc[t] = "get_ret"

\* A call starts: its name, its argument and its first step.
Enter(t, o, a, p) ==
    /\ pc' = [pc EXCEPT ![t] = p]
    /\ op' = [op EXCEPT ![t] = o]
    /\ arg' = [arg EXCEPT ![t] = a]
    /\ nops' = nops + 1
    /\ solo' = (solo /\ \A u \in Threads \ {t} : pc[u] = "idle")
    /\ UNCHANGED res

\* A call returns: its locals are gone.
Leave(t) ==
    /\ pc' = [pc EXCEPT ![t] = "idle"]
    /\ op' = [op EXCEPT ![t] = "none"]
    /\ arg' = [arg EXCEPT ![t] = None]
    /\ tgt' = [tgt EXCEPT ![t] = None]
    /\ res' = [res EXCEPT ![t] = FALSE]
    /\ call' = [call EXCEPT ![t] = NoCall]

\* ------------------------------------------------- Reroute::reroute & co.
\* reroute(log) -> reroute_boxed(Box::new(log)) -> reroute_arc(Arc::new(log)).
BeginReroute(t) ==
    /\ CanStart(t)
    /\ Alloc("User")
    /\ Enter(t, "reroute", Len(kind) + 1, "rr_swap")
    /\ UNCHANGED <<slot, handles, tgt, call>>
    /\ UNCHANGED facade

\* reroute(log) with a logger whose methods panic.
BeginRerouteBroken(t) ==
    /\ CanStart(t)
    /\ Alloc("Broken")
    /\ Enter(t, "reroute", Len(kind) + 1, "rr_swap")
    /\ UNCHANGED <<slot, handles, tgt, call>>
    /\ UNCHANGED facade

\* The logger clear() installs: self.reroute(Dummy).
ClearLogUser == "User"
ClearLog == "Dummy"

\* clear() -> reroute(Dummy).
BeginClear(t) ==
    /\ CanStart(t)
    /\ Alloc(ClearLog)
    /\ Enter(t, "clear", Len(kind) + 1, "rr_swap")
    /\ UNCHANGED <<slot, handles, tgt, call>>
    /\ UNCHANGED facade

\* reroute_arc(log) with an Arc got from get(): the caller's handle moves in.
BeginRerouteArc(t) ==
    /\ CanStart(t)
    /\ handle[t] # None
    /\ Enter(t, "reroute_arc", handle[t], "rr_swap")
    /\ handle' = [handle EXCEPT ![t] = None]
    /\ handleIdx' = [handleIdx EXCEPT ![t] = 0]
    /\ UNCHANGED <<slot, heap, tgt, call>>
    /\ UNCHANGED facade

\* self.inner.swap(log) is one atomic exchange that waits for nothing.
SwapGuardLocked(t) ==
    /\ pc[t] = "rr_swap"
    /\ \A u \in Threads : ~(pc[u] \in {"fw_call", "fw_in"} /\ tgt[u] = inner)
SwapGuard(t) == pc[t] = "rr_swap"

\* What swap returns: the logger in the slot at the instant of the exchange.
SwapOldBehind(t) == IF Len(swaps) > 1 THEN swaps[Len(swaps) - 1] ELSE inner
SwapOld(t) == inner

\* The strong counts after the exchange: the slot's reference to the old logger
\* goes to the caller (old) and the caller's reference to the new one goes to
\* the slot, so no count changes.
SwapCountDropsOld(t) == Release(inner)
SwapCount(t) == rc

\* let old = self.inner.swap(log);
Swap(t) ==
    /\ SwapGuard(t)
    /\ inner' = arg[t]
    /\ tgt' = [tgt EXCEPT ![t] = SwapOld(t)]
    /\ pc' = [pc EXCEPT ![t] = "rr_flush"]
    /\ swaps' = Append(swaps, arg[t])
    /\ call' = [call EXCEPT ![t].swapIdx = Len(swaps) + 1]
    /\ settled' = None
    /\ rc' = SwapCount(t)
    /\ UNCHANGED <<kind, out, hits, handles, op, arg, res, nops>>
    /\ UNCHANGED <<facade, solo>>

\* old.flush(): the logger the redirect calls flush on.
FlushTargetNew(t) == arg[t]
FlushTarget(t) == tgt[t]

\* The redirect waits for nothing before it flushes.
FlushGuardUnique(t) ==
    /\ pc[t] = "rr_flush"
    /\ \A u \in Threads : handle[u] # tgt[t]
FlushGuard(t) == pc[t] = "rr_flush"

FlushInvoke(t) ==
    /\ FlushGuard(t)
    /\ out' = [out EXCEPT ![FlushTarget(t)] = SinkFlush(FlushTarget(t))]
    /\ hits' = [hits EXCEPT ![FlushTarget(t)].redirect = @ + 1]
    /\ call' = [call EXCEPT ![t].invoked = Append(@, FlushTarget(t))]
    /\ pc' = [pc EXCEPT ![t] = "rr_in"]
    /\ UNCHANGED <<slot, kind, rc, handles, op, arg, tgt, res, nops>>
    /\ UNCHANGED <<facade, solo>>

\* The slot when reroute_arc ends, by a return or by a panic of old.flush():
\* nothing puts the old logger back.
EndInnerRestored(t) == IF Panics(tgt[t]) THEN tgt[t] ELSE inner
EndInner(t) == inner

\* A call ends by unwinding: the panic leaves the proxy's method for the caller,
\* which holds it until it goes on (Recover).
Unwind(t) ==
    /\ pc' = [pc EXCEPT ![t] = "unwound"]
    /\ UNCHANGED <<op, arg, tgt, res, call>>

\* The slave's flush returns or panics; either way old is dropped at the end of
\* reroute_arc, and the call returns or unwinds to its caller.
RedirectReturn(t) ==
    /\ pc[t] = "rr_in"
    /\ rc' = Release(tgt[t])
    /\ hits' = [hits EXCEPT ![tgt[t]].retired = @ + 1]
    /\ inner' = EndInner(t)
    /\ IF Panics(tgt[t])
       THEN /\ Unwind(t)
            /\ UNCHANGED settled
       ELSE /\ settled' = IF call[t].swapIdx = Len(swaps) THEN arg[t] ELSE settled
            /\ Leave(t)
    /\ UNCHANGED <<swaps, kind, out, handles, nops>>
    /\ UNCHANGED <<facade, solo>>

\* ------------------------------------------------- Reroute::get
\* What an atomic load of the slot yields.
LoadStale == swaps[1]
LoadUnpublished ==
    IF \E u \in Threads : pc[u] = "rr_swap"
    THEN arg[CHOOSE u \in Threads : pc[u] = "rr_swap"]
    ELSE inner
LoadTarget == inner

\* The history of a read of the slot.
Loaded(t) ==
    [call EXCEPT ![t].nloads = @ + 1,
                 ![t].loadIdx = Len(swaps),
                 ![t].atLoad = settled]

\* get() is called and does self.inner.load_full(): an atomic load and a clone
\* of the Arc.  (Entering a call touches nothing shared, so the model joins it
\* to the call's first atomic step.)
GetLoad(t) ==
    /\ CanStart(t)
    /\ handle[t] = None
    /\ Enter(t, "get", None, "get_ret")
    /\ tgt' = [tgt EXCEPT ![t] = LoadTarget]
    /\ rc' = Acquire(LoadTarget)
    /\ call' = Loaded(t)
    /\ UNCHANGED <<slot, kind, out, hits, handles>>
    /\ UNCHANGED facade

\* get() returns the Arc to its caller.
GetReturn(t) ==
    /\ pc[t] = "get_ret"
    /\ handle' = [handle EXCEPT ![t] = tgt[t]]
    /\ handleIdx' = [handleIdx EXCEPT ![t] = call[t].loadIdx]
    /\ Leave(t)
    /\ UNCHANGED <<slot, heap, nops>>
    /\ UNCHANGED <<facade, solo>>

\* The logger a call through the Arc from get() reaches.
HandleTargetLive(t) == inner
HandleTarget(t) == handle[t]

\* How a call through the Arc from get() ends: by a return, or by the panic of
\* the logger, which unwinds into the caller.
HandleEnd(t) == IF Panics(HandleTarget(t)) THEN "unwound" ELSE "idle"

\* The caller uses the Arc it got from get(): handle.flush().
UseHandle(t) ==
    /\ CanStart(t)
    /\ handle[t] # None
    /\ out' = [out EXCEPT ![HandleTarget(t)] = SinkFlush(HandleTarget(t))]
    /\ hits' = [hits EXCEPT
                  ![HandleTarget(t)].handle = @ + 1,
                  ![HandleTarget(t)].late = IF Retired(HandleTarget(t)) THEN @ + 1 ELSE @]
    /\ nops' = nops + 1
    /\ solo' = (solo /\ \A u \in Threads \ {t} : pc[u] = "idle")
    /\ pc' = [pc EXCEPT ![t] = HandleEnd(t)]
    /\ UNCHANGED <<slot, kind, rc, handles, op, arg, tgt, res, call>>
    /\ UNCHANGED facade

\* The caller drops the Arc it got from get().
DropHandle(t) ==
    /\ pc[t] = "idle"
    /\ handle[t] # None
    /\ rc' = Release(handle[t])
    /\ handle' = [handle EXCEPT ![t] = None]
    /\ handleIdx' = [handleIdx EXCEPT ![t] = 0]
    /\ UNCHANGED <<slot, kind, out, hits, locals, nops>>
    /\ UNCHANGED <<facade, solo>>

\* ------------------------------------------------- impl Log for Reroute
\* enabled, log and flush are the same code up to the method they call on the
\* loaded logger: self.inner.load().<method>(..).  The caller fixes the method
\* and its argument when it calls, but nothing reads them before the call into
\* the slave logger, so the model draws them there (fewer states, same runs).
\* arg[t] is the number of the call, which names the record of a log call.
\* A forwarding method is called and does self.inner.load(): one atomic load;
\* the Guard keeps the logger alive.
Load(t) ==
    /\ CanStart(t)
    /\ Enter(t, "forward", nops + 1, "fw_call")
    /\ tgt' = [tgt EXCEPT ![t] = LoadTarget]
    /\ rc' = Acquire(LoadTarget)
    /\ call' = Loaded(t)
    /\ UNCHANGED <<slot, kind, out, hits, handles>>
    /\ UNCHANGED facade

\* The logger a forwarding call calls into: the one it loaded.
ForwardTarget(t) == tgt[t]

\* The history of a call into the slave logger s by a forwarding call.
Invoked(t, s) ==
    /\ hits' = [hits EXCEPT ![s].forward = @ + 1]
    /\ call' = [call EXCEPT
                  ![t].invoked = Append(@, s),
                  ![t].stale = Retired(s)]
    /\ pc' = [pc EXCEPT ![t] = "fw_in"]

\* Reroute::enabled: .enabled(metadata) on the loaded logger.
InvokeEnabled(t, level) ==
    /\ pc[t] = "fw_call"
    /\ op' = [op EXCEPT ![t] = "enabled"]
    /\ arg' = [arg EXCEPT ![t] = LevelNo(level)]
    /\ res' = [res EXCEPT ![t] = SinkEnabled(ForwardTarget(t), level)]
    /\ Invoked(t, ForwardTarget(t))
    /\ UNCHANGED <<slot, kind, rc, out, handles, tgt, nops>>
    /\ UNCHANGED <<facade, solo>>

\* Reroute::log: .log(record) on the loaded logger.
InvokeLog(t) ==
    /\ pc[t] = "fw_call"
    /\ op' = [op EXCEPT ![t] = "log"]
    /\ out' = [out EXCEPT ![ForwardTarget(t)] = SinkLog(ForwardTarget(t), arg[t])]
    /\ Invoked(t, ForwardTarget(t))
    /\ UNCHANGED <<slot, kind, rc, handles, arg, tgt, res, nops>>
    /\ UNCHANGED <<facade, solo>>

\* Reroute::flush: .flush() on the loaded logger.
InvokeFlush(t) ==
    /\ pc[t] = "fw_call"
    /\ op' = [op EXCEPT ![t] = "flush"]
    /\ out' = [out EXCEPT ![ForwardTarget(t)] = SinkFlush(ForwardTarget(t))]
    /\ Invoked(t, ForwardTarget(t))
    /\ UNCHANGED <<slot, kind, rc, handles, arg, tgt, res, nops>>
    /\ UNCHANGED <<facade, solo>>

SinkInvoke(t) ==
    \/ \E level \in Levels : InvokeEnabled(t, level)
    \/ InvokeLog(t)
    \/ InvokeFlush(t)

\* How a forwarding call ends: nothing in the proxy catches a panic of the
\* slave logger.
ForwardEndSwallowed(t) == "idle"
ForwardEnd(t) == IF Panics(tgt[t]) THEN "unwound" ELSE "idle"

\* The slave returns or panics; the Guard is dropped and the call returns its
\* answer or unwinds to its caller.
ForwardReturn(t) ==
    /\ pc[t] = "fw_in"
    /\ rc' = Release(tgt[t])
    /\ IF ForwardEnd(t) = "unwound" THEN Unwind(t) ELSE Leave(t)
    /\ UNCHANGED <<slot, kind, out, hits, handles, nops>>
    /\ UNCHANGED <<facade, solo>>

\* The caller of a call that panicked catches the panic and goes on.
Recover(t) ==
    /\ pc[t] = "unwound"
    /\ Leave(t)
    /\ UNCHANGED <<slot, heap, handles, nops>>
    /\ UNCHANGED <<facade, solo>>

\* ------------------------------------------------- REROUTE, init & co.
\* The proxy of this model is the static REROUTE.  log::set_logger registers
\* its argument unless a logger is registered already.
SetLoggerOkAlways == TRUE
SetLoggerOk == logger = NoLogger

\* The slot after init(): init does not touch REROUTE.inner.
InitTargetReset == DefaultInner
InitTarget == inner

\* init(): log::set_logger(&*REROUTE), Ok(()) or Err(SetLoggerError).
InitCall(t) ==
    /\ CanStart(t)
    /\ nops' = nops + 1
    /\ solo' = (solo /\ \A u \in Threads \ {t} : pc[u] = "idle")
    /\ logger' = IF SetLoggerOk THEN "REROUTE" ELSE logger
    /\ inits' = Append(inits, [ok |-> SetLoggerOk, at |-> Len(swaps)])
    /\ inner' = InitTarget
    /\ UNCHANGED <<swaps, settled, heap, locals, handles>>

\* The global reroute(log) and reroute_boxed(log): REROUTE.reroute(log) and
\* REROUTE.reroute_boxed(log).
GlobalReroute(t) == BeginReroute(t)

\* ------------------------------------------------- the specification
Step(t) ==
    \/ BeginReroute(t)
    \/ BeginClear(t)
    \/ BeginRerouteArc(t)
    \/ Swap(t)
    \/ FlushInvoke(t)
    \/ RedirectReturn(t)
    \/ GetLoad(t)
    \/ GetReturn(t)
    \/ UseHandle(t)
    \/ DropHandle(t)
    \/ Load(t)
    \/ \E level \in Levels : InvokeEnabled(t, level)
    \/ InvokeLog(t)
    \/ InvokeFlush(t)
    \/ ForwardReturn(t)

\* The steps inside a call: the ones a scheduler must eventually run.
Progress(t) ==
    \/ Swap(t)
    \/ FlushInvoke(t)
    \/ RedirectReturn(t)
    \/ GetReturn(t)
    \/ SinkInvoke(t)
    \/ ForwardReturn(t)

Next == \E t \in Threads : Step(t)

Spec == Init /\ [][Next]_vars

\* Every thread inside a call is eventually scheduled; the slave loggers return.
FairSpec == Spec /\ \A t \in Threads : WF_vars(Progress(t))

\* The sequential runs: a call starts only when no other call is in progress.
SeqNext ==
    \E t \in Threads :
        /\ \A u \in Threads \ {t} : pc[u] = "idle"
        /\ Step(t)

SeqSpec == Init /\ [][SeqNext]_vars

\* The proxy with the global functions.
GlobalStep(t) ==
    \/ Step(t)
    \/ InitCall(t)
    \/ GlobalReroute(t)

GlobalNext == \E t \in Threads : GlobalStep(t)

GlobalSpec == Init /\ [][GlobalNext]_vars

\* The proxy with loggers that may panic: Spec and FairSpec are the runs in
\* which every slave logger returns, FailSpec adds the loggers that do not.
FailStep(t) ==
    \/ Step(t)
    \/ BeginRerouteBroken(t)
    \/ Recover(t)

FailNext == \E t \in Threads : FailStep(t)

FailSpec == Init /\ [][FailNext]_vars

\* ------------------------------------------------- the claims
\* The logger that was in the slot immediately before thread t's own swap.
Outgoing(t) == swaps[call[t].swapIdx - 1]

\* The loggers that were in the slot at some instant since t's call read it.
Window(t) == {swaps[i] : i \in call[t].loadIdx..Len(swaps)}

\* C1: a redirect that replaces logger S1 by a different logger S2 returns only
\* after it has called S1.flush() exactly once (and nothing else), the flush
\* having returned, whatever number of calls was forwarded to S1 before.
C1_FlushOnReplace ==
    [][\A t \in Threads :
          (InRedirect(t) /\ pc'[t] = "idle" /\ Outgoing(t) # arg[t])
              => /\ pc[t] = "rr_in"
                 /\ call[t].invoked = <<Outgoing(t)>>]_vars

\* A redirect has called flush on the logger it replaced, which is not the one it
\* installs and which two forwarding calls had been forwarded to.
C1_Witness ==
    \E t \in Threads :
        /\ pc[t] = "rr_in"
        /\ Outgoing(t) # arg[t]
        /\ hits[Outgoing(t)].forward >= 2
        /\ hits[Outgoing(t)].redirect = 1

\* C2: once redirect(S) has returned and no other swap has been made since, a
\* forwarding call or a get() that reads the slot gets S: the forwarding call
\* calls into S and into no other logger, and get() returns S.
C2_RedirectVisible ==
    \A t \in Threads :
        (/\ pc[t] \in {"fw_call", "fw_in", "get_ret"}
         /\ call[t].atLoad # None
         /\ call[t].loadIdx = Len(swaps))
            => /\ tgt[t] = call[t].atLoad
               /\ pc[t] = "fw_call" => call[t].invoked = <<>>
               /\ pc[t] = "fw_in" => call[t].invoked = <<call[t].atLoad>>

\* A forwarding call has called into the user's logger S after redirect(S)
\* returned, with no swap since.
C2_Witness ==
    \E t \in Threads :
        /\ pc[t] = "fw_in"
        /\ call[t].atLoad # None
        /\ call[t].loadIdx = Len(swaps)
        /\ kind[call[t].atLoad] = "User"

\* C3: a forwarding call reads the slot once and calls into exactly one logger,
\* one that was in the slot at some instant of the call: an allocated, live
\* logger, never an absent one or one that was never installed.
C3_NoTearing ==
    \A t \in Threads :
        /\ pc[t] \in {"fw_call", "fw_in"} =>
              /\ call[t].nloads = 1
              /\ tgt[t] \in Window(t)
              /\ tgt[t] \in Sinks
              /\ rc[tgt[t]] >= 1
        /\ pc[t] = "fw_call" => call[t].invoked = <<>>
        /\ pc[t] = "fw_in" =>
              /\ Len(call[t].invoked) = 1
              /\ call[t].invoked[1] \in Window(t)

\* A forwarding call raced with a redirect: a swap was made after the call
\* started, another redirect is in progress, and the call has called a logger.
C3_Witness ==
    \E t, u \in Threads :
        /\ pc[t] = "fw_in"
        /\ call[t].loadIdx < Len(swaps)
        /\ InRedirect(u)

\* C4: no step of a call on the proxy waits for another thread: whatever the
\* other threads are doing (a redirect between its swap and the end of its
\* flush, forwarding calls holding the outgoing logger), the next step of every
\* call in progress is enabled, and so is the load of a call that may start.
C4_NonBlocking ==
    \A t \in Threads :
        /\ pc[t] = "rr_swap" => ENABLED Swap(t)
        /\ pc[t] = "rr_flush" => ENABLED FlushInvoke(t)
        /\ pc[t] = "rr_in" => ENABLED RedirectReturn(t)
        /\ pc[t] = "get_ret" => ENABLED GetReturn(t)
        /\ pc[t] = "fw_call" => ENABLED SinkInvoke(t)
        /\ pc[t] = "fw_in" => ENABLED ForwardReturn(t)
        /\ CanStart(t) => ENABLED Load(t)
        /\ (CanStart(t) /\ handle[t] = None) => ENABLED GetLoad(t)

\* A forwarding call has read the slot after a redirect's swap and has called
\* into the new logger while that redirect's flush of the outgoing logger runs.
C4_Witness ==
    \E t, u \in Threads :
        /\ pc[t] = "rr_in"
        /\ pc[u] = "fw_in"
        /\ call[u].loadIdx >= call[t].swapIdx
        /\ tgt[u] = arg[t]
        /\ tgt[u] # tgt[t]

\* C5: under fair scheduling, and with slave loggers that return, every call
\* started on the proxy returns; so no state with a call in progress is a
\* deadlock (a thread stuck there would never return).  A thread is idle or
\* inside a call, so "a call in progress leads to idle" is "idle again and again".
C5_EveryCallReturns ==
    \A t \in Threads : []<>(pc[t] = "idle")

\* A redirect and a forwarding call are in progress at once, the latter on the
\* logger the former has swapped out.
C5_Witness ==
    \E t, u \in Threads :
        /\ pc[t] \in {"rr_flush", "rr_in"}
        /\ pc[u] = "fw_call"
        /\ tgt[u] = tgt[t]

\* C6: a record is delivered to a logger after the redirect that replaced it has
\* flushed it and returned, and only by a forwarding call that had read the
\* slot before that swap, while the logger was still in the slot.
C6_LateEmitLoadedBefore ==
    \A t \in Threads :
        (pc[t] = "fw_in" /\ call[t].stale)
            => /\ swaps[call[t].loadIdx] = tgt[t]
               /\ call[t].loadIdx < Len(swaps)
               /\ call[t].invoked = <<tgt[t]>>

\* The user's logger has written a record it was given after the redirect that
\* replaced it had flushed it and returned.
C6_Witness ==
    \E t \in Threads :
        /\ pc[t] = "fw_in"
        /\ op[t] = "log"
        /\ call[t].stale
        /\ kind[tgt[t]] = "User"
        /\ hits[tgt[t]].retired = 1
        /\ out[tgt[t]].flushes = 1
        /\ out[tgt[t]].recs = <<arg[t]>>

\* C7: the Arc that get() returned denotes, for as long as it is held, the
\* logger that was in the slot when get() read it; that logger is not destroyed,
\* whatever redirects follow, and a flush through the Arc reaches that logger.
C7_HandleSnapshot ==
    /\ [](\A t \in Threads :
            handle[t] # None =>
                /\ handle[t] = swaps[handleIdx[t]]
                /\ rc[handle[t]] >= 1)
    /\ [][\A t \in Threads :
            UseHandle(t) =>
                /\ hits'[swaps[handleIdx[t]]].handle =
                       hits[swaps[handleIdx[t]]].handle + 1
                /\ out'[swaps[handleIdx[t]]] = SinkFlush(swaps[handleIdx[t]])
                /\ \A s \in Sinks : s # swaps[handleIdx[t]] =>
                       (out'[s] = out[s] /\ hits'[s] = hits[s])]_vars

\* A thread has flushed, through the Arc it holds from get(), a logger that a
\* redirect had replaced before, that redirect having returned; the Arc is the
\* last owner of the logger.
C7_Witness ==
    \E t \in Threads :
        /\ handle[t] # None
        /\ handle[t] # inner
        /\ hits[handle[t]].late = 1
        /\ hits[handle[t]].retired = 1
        /\ rc[handle[t]] = 1

NoRedirectYet ==
    /\ Len(swaps) = 1
    /\ \A t \in Threads : ~InRedirect(t)

\* C8: as long as no redirect has been called on a new proxy, enabled answers
\* false for every level, and log and flush change nothing: the slot holds the
\* initial Dummy and nothing has been written.
C8_DefaultSafety ==
    NoRedirectYet =>
        /\ inner = DefaultInner
        /\ kind[inner] = "Dummy"
        /\ \A s \in Sinks : out[s] = NoOutput
        /\ \A t \in Threads :
              pc[t] = "fw_in" => (res[t] = FALSE /\ tgt[t] = DefaultInner)

\* On a new proxy three forwarding calls have called into the Dummy, the last
\* of them enabled(Info), which has just been answered.
C8_Witness ==
    /\ NoRedirectYet
    /\ hits[DefaultInner].forward = 3
    /\ \E t \in Threads : pc[t] = "fw_in" /\ op[t] = "enabled" /\ arg[t] = LevelNo("Info")

\* C9: the slot always holds one live, allocated logger, and every read of the
\* slot, by a forwarding call or by get(), finds a logger.
C9_SlotNeverEmpty ==
    /\ inner # None
    /\ inner \in Sinks
    /\ rc[inner] >= 1
    /\ inner = swaps[Len(swaps)]
    /\ \A t \in Threads :
          pc[t] \in {"fw_call", "fw_in", "get_ret"} =>
              (tgt[t] # None /\ tgt[t] \in Sinks)

\* Two redirects are in progress, one of them past its swap, and the slot holds
\* the logger of that swap.
C9_Witness ==
    \E t, u \in Threads :
        /\ pc[t] \in {"rr_flush", "rr_in"}
        /\ pc[u] = "rr_swap"
        /\ inner = arg[t]
        /\ inner # DefaultInner

\* C10: the swaps are totally ordered and each redirect flushes the logger that
\* was in the slot immediately before its own swap; once no redirect is in
\* progress, the slot holds the logger of the last swap and every logger has
\* been flushed by redirects exactly as often as it has been swapped out.
C10_SwapOrder ==
    /\ \A t \in Threads :
          pc[t] \in {"rr_flush", "rr_in"} =>
              /\ call[t].swapIdx \in 2..Len(swaps)
              /\ swaps[call[t].swapIdx] = arg[t]
              /\ tgt[t] = Outgoing(t)
              /\ call[t].invoked = IF pc[t] = "rr_flush" THEN <<>> ELSE <<Outgoing(t)>>
    /\ \A t, u \in Threads :
          (t # u /\ call[t].swapIdx > 0) => call[t].swapIdx # call[u].swapIdx
    /\ (\A t \in Threads : ~InRedirect(t)) =>
          /\ inner = swaps[Len(swaps)]
          /\ \A s \in Sinks : hits[s].redirect = Replaced(s)
          /\ \A s \in Sinks : hits[s].retired = Replaced(s)

\* Two concurrent redirects with distinct loggers have returned; the one that
\* started first swapped last, so its logger is in the slot, and the initial
\* logger and the other logger have each been flushed once.
C10_Witness ==
    /\ \A t \in Threads : pc[t] = "idle"
    /\ swaps = <<1, 3, 2>>
    /\ inner = 2
    /\ hits[1].redirect = 1
    /\ hits[3].redirect = 1
    /\ hits[2].redirect = 0

\* C11 as stated: every redirect, reroute_arc with an Arc from get() included,
\* calls flush on the logger it replaces only and never on the one it installs.
C11_NeverFlushesInstalled ==
    \A t \in Threads :
        pc[t] = "rr_in" =>
            /\ call[t].invoked = <<Outgoing(t)>>
            /\ call[t].invoked[1] # arg[t]

\* C11 (amended): every redirect calls flush exactly on the logger that was in
\* the slot immediately before its own swap, and on no other; that logger is the
\* one it installs only when reroute_arc is given an Arc of the very logger
\* that is in the slot at its swap (reroute, reroute_boxed and clear install a
\* new logger and never flush it).
C11_FlushOnlyReplaced ==
    \A t \in Threads :
        /\ pc[t] = "rr_flush" => call[t].invoked = <<>>
        /\ pc[t] = "rr_in" =>
              /\ call[t].invoked = <<Outgoing(t)>>
              /\ tgt[t] = Outgoing(t)
              /\ Outgoing(t) = arg[t] => op[t] = "reroute_arc"
              /\ op[t] \in {"reroute", "clear"} => call[t].invoked[1] # arg[t]

\* reroute_arc was given an Arc from get() of a logger that another redirect
\* had replaced since: it has flushed the logger it swapped out, not its Arc's.
C11_Witness ==
    \E t \in Threads :
        /\ pc[t] = "rr_in"
        /\ op[t] = "reroute_arc"
        /\ Outgoing(t) # arg[t]
        /\ kind[Outgoing(t)] = "User"
        /\ call[t].invoked = <<Outgoing(t)>>
        /\ hits[arg[t]].redirect = 1

\* The loggers clear() has installed: the no-op loggers other than the initial.
ClearSinks == {s \in Sinks : kind[s] = "Dummy" /\ s # DefaultInner}

\* C12: clear() is reroute(Dummy): it installs a new no-op logger, never in the
\* slot before, and flushes the logger it replaces exactly once; and a
\* forwarding call that reads the slot once clear() has returned and before the
\* next swap calls into that no-op logger only: enabled answers false, and
\* nothing is written by any logger.
C12_ClearIsRerouteDummy ==
    /\ [](\A t \in Threads :
            /\ (op[t] = "clear" /\ InRedirect(t)) =>
                  /\ kind[arg[t]] = "Dummy"
                  /\ \A i \in 1..Len(swaps) :
                        swaps[i] = arg[t] => (call[t].swapIdx > 0 /\ i >= call[t].swapIdx)
            /\ (op[t] = "clear" /\ pc[t] = "rr_in") =>
                  call[t].invoked = <<Outgoing(t)>>
            /\ (pc[t] = "fw_in" /\ call[t].atLoad \in ClearSinks) =>
                  /\ call[t].invoked = <<call[t].atLoad>>
                  /\ res[t] = FALSE)
    /\ [][\A t \in Threads :
            (pc[t] = "fw_call" /\ pc'[t] = "fw_in" /\ call[t].atLoad \in ClearSinks)
                => out' = out]_vars

\* After redirect(user's logger) and clear() have returned, a log call has called
\* into the no-op logger; the user's logger had been flushed once by clear()
\* and has written nothing.
C12_Witness ==
    \E t \in Threads :
        /\ pc[t] = "fw_in"
        /\ op[t] = "log"
        /\ call[t].atLoad \in ClearSinks
        /\ \E s \in Sinks :
              /\ kind[s] = "User"
              /\ out[s] = [recs |-> <<>>, flushes |-> 1]
              /\ hits[s].redirect = 1

\* C13: a clear() whose swap directly follows the swap of another clear()
\* changes nothing that can be observed: the logger it replaces is a no-op one,
\* so no step of it changes what any logger has written (no user's logger is
\* flushed again), and the logger it leaves in the slot is a no-op logger, for
\* which enabled is false at every level.
C13_ClearTwice ==
    /\ [](\A t \in Threads :
            (/\ op[t] = "clear"
             /\ pc[t] \in {"rr_flush", "rr_in"}
             /\ Outgoing(t) \in ClearSinks) =>
                /\ tgt[t] \in ClearSinks
                /\ kind[arg[t]] = "Dummy"
                /\ \A level \in Levels : ~SinkEnabled(arg[t], level)
                /\ call[t].swapIdx = Len(swaps) => inner = arg[t])
    /\ [][\A t \in Threads :
            (/\ op[t] = "clear"
             /\ pc[t] \in {"rr_flush", "rr_in"}
             /\ Outgoing(t) \in ClearSinks
             /\ pc'[t] # pc[t]) => out' = out]_vars

\* redirect(user's logger), clear(), clear(): the second clear() has flushed the
\* no-op logger of the first; the user's logger has been flushed once in all.
C13_Witness ==
    \E t \in Threads :
        /\ op[t] = "clear"
        /\ pc[t] = "rr_in"
        /\ Len(swaps) = 4
        /\ kind[swaps[2]] = "User"
        /\ swaps[3] \in ClearSinks
        /\ Outgoing(t) = swaps[3]
        /\ out[swaps[2]].flushes = 1
        /\ hits[swaps[3]].redirect = 1

ForwardOps == {"enabled", "log", "flush"}
RedirectOps == {"reroute", "clear", "reroute_arc"}

\* C15: a panic of the slave logger in a forwarding call reaches the caller of
\* that call (the call cannot end by a return), and the proxy is as it was: the
\* step that ends the call leaves the slot alone, the slot holds a live logger
\* (the same one, unless a redirect swapped it since), a later get() reads the
\* logger in the slot, and a forwarding call that has read a working logger,
\* e.g. after a later redirect, ends by a return.
C15_SinkFailurePropagates ==
    \A t \in Threads :
        /\ (pc[t] = "fw_in" /\ Panics(tgt[t])) =>
              /\ ENABLED (FailStep(t) /\ pc'[t] = "unwound" /\ inner' = inner
                             /\ swaps' = swaps /\ out' = out)
              /\ ~ENABLED (FailStep(t) /\ pc'[t] # "unwound")
        /\ (pc[t] = "fw_in" /\ ~Panics(tgt[t])) =>
              /\ ENABLED (FailStep(t) /\ pc'[t] = "idle")
              /\ ~ENABLED (FailStep(t) /\ pc'[t] # "idle")
        /\ (pc[t] = "unwound" /\ op[t] \in ForwardOps) =>
              /\ Panics(tgt[t])
              /\ call[t].invoked = <<tgt[t]>>
              /\ out[tgt[t]] = NoOutput
              /\ inner \in Sinks /\ rc[inner] >= 1
              /\ inner = swaps[Len(swaps)]
              /\ call[t].loadIdx = Len(swaps) => inner = tgt[t]
              /\ \A u \in Threads :
                    pc[u] \in {"get_ret", "fw_call", "fw_in"} =>
                        tgt[u] = swaps[call[u].loadIdx]

\* The proxy was rerouted to a broken logger, a log call panicked in it and the
\* panic reached its caller; a later redirect put a working logger in the
\* slot, and the log call made after it has written its record there and has
\* returned.
C15_Witness ==
    /\ \A t \in Threads : pc[t] = "idle"
    /\ nops = 4
    /\ Len(swaps) = 3
    /\ Panics(swaps[2])
    /\ hits[swaps[2]].forward = 1
    /\ kind[swaps[3]] = "User"
    /\ inner = swaps[3]
    /\ hits[swaps[3]].forward = 1
    /\ out[swaps[3]].recs = <<4>>

\* C20: a panic of the outgoing logger's flush inside a redirect reaches the
\* caller of the redirect (the redirect cannot end by a return), and the swap
\* stands: the new logger is in the slot unless a later swap replaced it, calls
\* that read the slot since then got the new logger, and the outgoing logger
\* is not put back.
C20_FlushPanicKeepsSwap ==
    \A t \in Threads :
        /\ (pc[t] = "rr_in" /\ Panics(tgt[t])) =>
              /\ ENABLED (FailStep(t) /\ pc'[t] = "unwound" /\ inner' = inner
                             /\ swaps' = swaps)
              /\ ~ENABLED (FailStep(t) /\ pc'[t] # "unwound")
        /\ (pc[t] = "unwound" /\ op[t] \in RedirectOps) =>
              /\ Panics(tgt[t])
              /\ call[t].invoked = <<tgt[t]>>
              /\ tgt[t] = Outgoing(t)
              /\ swaps[call[t].swapIdx] = arg[t]
              /\ inner = swaps[Len(swaps)]
              /\ call[t].swapIdx = Len(swaps) => inner = arg[t]
              /\ \A u \in Threads :
                    (/\ pc[u] \in {"get_ret", "fw_call", "fw_in"}
                     /\ call[u].loadIdx = call[t].swapIdx) => tgt[u] = arg[t]

\* redirect(S2) replaced a broken logger, whose flush panicked; the panic has
\* reached the redirect's caller, S2 is in the slot and a forwarding call that
\* read the slot has called into S2, a working logger.
C20_Witness ==
    \E t, u \in Threads :
        /\ pc[t] = "unwound"
        /\ op[t] = "reroute"
        /\ Panics(tgt[t])
        /\ inner = arg[t]
        /\ kind[arg[t]] = "User"
        /\ pc[u] = "fw_in"
        /\ op[u] = "log"
        /\ tgt[u] = arg[t]
        /\ out[arg[t]].recs = <<arg[u]>>

\* The loggers that have been in the slot.
Installed == {swaps[i] : i \in 1..Len(swaps)}

\* C14: in a sequential run every log call is delivered once, to the logger in
\* the slot at that call and to no other: the call into the logger changes the
\* output and the call count of that logger only, a user's logger appending
\* the record to what it has written; no step of a redirect delivers a record,
\* and a redirect delivers nothing at all to the new logger it installs.  So
\* each logger holds the records of the log calls made while it was in the
\* slot, in the order of the calls, and a logger never installed holds nothing.
C14_SequentialDelivery ==
    /\ [](\A t \in Threads : pc[t] \in {"fw_call", "fw_in"} => tgt[t] = inner)
    /\ [](\A s \in Sinks :
            /\ \A i, j \in 1..Len(out[s].recs) :
                  i < j => out[s].recs[i] < out[s].recs[j]
            /\ Len(out[s].recs) <= hits[s].forward
            /\ kind[s] # "User" => out[s].recs = <<>>
            /\ s \notin Installed => (out[s] = NoOutput /\ hits[s] = NoHits))
    /\ [][\A t \in Threads :
            (pc[t] = "fw_call" /\ pc'[t] = "fw_in" /\ op'[t] = "log") =>
                /\ hits'[inner].forward = hits[inner].forward + 1
                /\ kind[inner] = "User" =>
                      out'[inner] = [out[inner] EXCEPT !.recs = Append(@, arg[t])]
                /\ \A s \in Sinks \ {inner} :
                      out'[s] = out[s] /\ hits'[s] = hits[s]]_vars
    /\ [][\A t \in Threads :
            (InRedirect(t) /\ pc'[t] # pc[t]) =>
                /\ \A s \in Sinks : out'[s].recs = out[s].recs
                /\ op[t] \in {"reroute", "clear"} =>
                      (out[arg[t]] = NoOutput /\ out'[arg[t]] = NoOutput)]_vars

\* redirect(A), log(r1), redirect(B), log(r2), one after the other: A has
\* written r1 only and has been flushed once, by redirect(B); B, in the slot,
\* has been called once and has written r2 only.
C14_Witness ==
    \E t \in Threads :
        /\ pc[t] = "fw_in"
        /\ op[t] = "log"
        /\ arg[t] = 4
        /\ Len(swaps) = 3
        /\ tgt[t] = swaps[3]
        /\ inner = swaps[3]
        /\ kind[swaps[2]] = "User"
        /\ kind[swaps[3]] = "User"
        /\ out[swaps[2]] = [recs |-> <<2>>, flushes |-> 1]
        /\ hits[swaps[2]].forward = 1
        /\ hits[swaps[2]].redirect = 1
        /\ out[swaps[3]] = [recs |-> <<4>>, flushes |-> 0]
        /\ hits[swaps[3]].forward = 1

\* C16: of the init() calls, in whatever order they run, exactly the first
\* returns Ok and every later one returns the error; once a logger is
\* registered it stays REROUTE, and a failing init() changes neither the
\* registration nor anything of the proxy (its slot, its loggers).
C16_InitOnce ==
    /\ inits # <<>> =>
          /\ inits[1].ok
          /\ \A i \in 2..Len(inits) : ~inits[i].ok
    /\ logger = IF inits = <<>> THEN NoLogger ELSE "REROUTE"
    /\ \A t \in Threads :
          (logger = "REROUTE" /\ CanStart(t)) =>
              /\ ENABLED InitCall(t)
              /\ ~ENABLED (InitCall(t) /\
                     <<logger, slot, heap, handles>>' # <<logger, slot, heap, handles>>)

\* After a redirect, init() has been called twice: the first call returned Ok,
\* the second the error, and the redirect's logger is still in the slot.
C16_Witness ==
    /\ Len(inits) = 2
    /\ inits[1].ok /\ ~inits[2].ok
    /\ inits[2].at = 2
    /\ logger = "REROUTE"
    /\ inner = swaps[2]
    /\ kind[inner] = "User"

\* C17: init() never changes the target of REROUTE, the one proxy the global
\* functions act on: the slot always holds the logger of the latest swap, made
\* before or after init(), and the initial Dummy if there was none; a global
\* redirect puts its logger in that slot and flushes the logger it replaces.
C17_GlobalDelegation ==
    /\ inner = swaps[Len(swaps)]
    /\ Len(swaps) = 1 => (inner = DefaultInner /\ kind[inner] = "Dummy")
    /\ \A i \in 1..Len(inits) : inits[i].at \in 1..Len(swaps)
    /\ \A t \in Threads :
          /\ pc[t] \in {"rr_flush", "rr_in"} =>
                (swaps[call[t].swapIdx] = arg[t] /\ tgt[t] = Outgoing(t))
          /\ pc[t] = "rr_in" => call[t].invoked = <<Outgoing(t)>>
          /\ CanStart(t) => ~ENABLED (InitCall(t) /\ inner' # inner)

\* reroute(A), init(), reroute(B) have returned: init() succeeded when A was in
\* the slot, and the slot now holds B.
C17_Witness ==
    /\ \A t \in Threads : pc[t] = "idle"
    /\ Len(inits) = 1
    /\ inits[1].ok
    /\ inits[1].at = 2
    /\ logger = "REROUTE"
    /\ Len(swaps) = 3
    /\ inner = swaps[3]
    /\ kind[swaps[2]] = "User"
    /\ kind[swaps[3]] = "User"
    /\ hits[swaps[2]].redirect = 1

\* C18: a redirect swaps, then flushes the outgoing logger, then releases it.
\* Nothing is flushed before the swap; while the flush is pending or running
\* the new logger has been put in the slot, so a call that read the slot since
\* that swap (hence any call that reads it once the flush has started) has the
\* outgoing logger only if a later swap installed it again; and the redirect
\* still holds its reference to the outgoing logger, which is not destroyed.
C18_SwapFlushRelease ==
    \A t \in Threads :
        /\ pc[t] = "rr_swap" => (call[t].invoked = <<>> /\ call[t].swapIdx = 0)
        /\ pc[t] \in {"rr_flush", "rr_in"} =>
              /\ call[t].swapIdx \in 2..Len(swaps)
              /\ swaps[call[t].swapIdx] = arg[t]
              /\ tgt[t] = Outgoing(t)
              /\ rc[tgt[t]] >= 1
              /\ \A u \in Threads :
                    (/\ pc[u] \in {"get_ret", "fw_call", "fw_in"}
                     /\ call[u].loadIdx >= call[t].swapIdx
                     /\ tgt[u] = tgt[t]) =>
                        \E i \in call[t].swapIdx..Len(swaps) : swaps[i] = tgt[t]
        /\ pc[t] = "rr_flush" => call[t].invoked = <<>>

\* The flush of the outgoing logger, a user's logger, is running; the redirect
\* holds the last reference to it, and a forwarding call that read the slot
\* after the swap is in the new logger.
C18_Witness ==
    \E t, u \in Threads :
        /\ pc[t] = "rr_in"
        /\ kind[tgt[t]] = "User"
        /\ out[tgt[t]].flushes = 1
        /\ rc[tgt[t]] = 1
        /\ pc[u] = "fw_in"
        /\ call[u].loadIdx = call[t].swapIdx
        /\ tgt[u] = arg[t]
        /\ tgt[u] # tgt[t]

\* The references to logger s: the slot, the Arc's from get(), the loads of the
\* calls in progress, and the log and old of the redirects in progress.
Holders(s) ==
    (IF inner = s THEN 1 ELSE 0)
    + Cardinality({t \in Threads : handle[t] = s})
    + Cardinality({t \in Threads :
                     pc[t] \in {"get_ret", "fw_call", "fw_in"} /\ tgt[t] = s})
    + Cardinality({t \in Threads : pc[t] \in {"rr_flush", "rr_in"} /\ tgt[t] = s})
    + Cardinality({t \in Threads : pc[t] = "rr_swap" /\ arg[t] = s})

\* C19: the strong count of a logger is the number of its holders, so a logger
\* is destroyed (count 0) exactly when it is not in the slot, no Arc from get()
\* is outstanding, no call in progress has loaded it and no redirect is
\* flushing it; no call runs in a destroyed logger; and a destroyed logger
\* stays destroyed: no step acquires it, releases it or calls into it again.
C19_DestroyedWithoutHolders ==
    /\ [](/\ \A s \in Sinks : rc[s] = Holders(s)
          /\ \A t \in Threads :
                /\ pc[t] \in {"get_ret", "fw_call", "fw_in", "rr_flush", "rr_in"} =>
                      rc[tgt[t]] >= 1
                /\ handle[t] # None => rc[handle[t]] >= 1)
    /\ [][\A s \in Sinks :
            rc[s] = 0 => (rc'[s] = 0 /\ out'[s] = out[s] /\ hits'[s] = hits[s])]_vars

\* A user's logger that calls were forwarded to has been replaced and flushed
\* by a redirect, which returned, and has been destroyed.
C19_Witness ==
    \E s \in Sinks :
        /\ kind[s] = "User"
        /\ rc[s] = 0
        /\ inner # s
        /\ hits[s].forward >= 1
        /\ hits[s].retired = 1
        /\ out[s].flushes >= 1

====
